---- MODULE Spec2Model ----
(***************************************************************************)
(* Model of the three engine hooks registered by the Game constructor      *)
(* (src/game.js): beforeUpdate, afterUpdate and collisionStart, driven by  *)
(* the matter.js runner started at the end of the constructor.             *)
(*                                                                         *)
(* The world holds four body records:                                      *)
(*   1  the static floor, label "Ground" (game.js:85-86)                   *)
(*   2  a body with a single part (parts = <<2>>, parent = itself)         *)
(*   3  a compound body, parts = <<3, 4>>                                  *)
(*   4  the sub-part of 3 (parent = 3); it is not a member of the world's  *)
(*      body list, only of 3's parts                                       *)
(* The labels of 2 and of 3/4 and the sleep flag the sub-part was built    *)
(* with are chosen in Init.                                                *)
(***************************************************************************)
EXTENDS Integers, Sequences, FiniteSets

\* ---------------------------------------------------------------- bounds
MaxSteps == 8      \* hook runs and engine phases explored (a tick has up to four)
MaxPairs == 2      \* pairs delivered in one collisionStart event

\* ------------------------------------------------------- the body records
Bodies == 1..4

Ground == 1

\* body.parts: parts[1] of a body is the body itself
parts == [b \in Bodies |-> IF b = 3 THEN <<3, 4>> ELSE <<b>>]

\* part.parent
parent == [b \in Bodies |-> IF b = 4 THEN 3 ELSE b]

isStatic == [b \in Bodies |-> b = Ground]

\* body.mass (the engine gives a static body an infinite mass; any non-zero
\* number stands for it, the hook never multiplies by it)
mass == [b \in Bodies |-> IF b = Ground THEN 1000 ELSE IF b = 2 THEN 100 ELSE 101]

Labels == {"Block", "Projectile"}

\* values body.velocity takes
Velocities == {<<0, 0>>, <<3, 0>>, <<3, 4>>}

\* values body.angle takes
Angles == {0, 1}

\* the threshold of the afterUpdate hook
ShockLimit == 500

\* shockAbsorbed before the first collision: the property does not exist
Undefined == -1

\* velocityPrev is a reference to a vector object, or does not exist.
\* "part.velocityPrev = part.velocity" stores the part's own velocity object;
\* the engine writes velocity.x and velocity.y of that object in place.
NoVector == "undefined"
OwnVelocity == "part.velocity"

VARIABLES
    world,          \* engine.world.bodies, in insertion order
    label,          \* body.label
    velocity,       \* body.velocity (the value held by the vector object)
    velocityPrev,   \* part.velocityPrev: NoVector or OwnVelocity
    shockAbsorbed,  \* body.shockAbsorbed: Undefined or a number
    angle,          \* body.angle
    isSleeping,     \* body.isSleeping
    pairs,          \* event.pairs of the collisionStart event being delivered
    phase,          \* where the runner is in the tick
    steps,          \* hook runs and engine phases so far
    uncaught        \* the last tick ended with an exception thrown by a hook

vars == <<world, label, velocity, velocityPrev, shockAbsorbed, angle,
          isSleeping, pairs, phase, steps, uncaught>>

\* ------------------------------------------------------------- Matter.Vector
VecMult(v, k) == <<v[1] * k, v[2] * k>>

VecSub(a, b) == <<a[1] - b[1], a[2] - b[2]>>

RECURSIVE FloorSqrtIn(_, _, _)
FloorSqrtIn(n, lo, hi) ==
    IF lo >= hi THEN lo
    ELSE LET mid == (lo + hi + 1) \div 2
         IN IF mid * mid <= n THEN FloorSqrtIn(n, mid, hi)
            ELSE FloorSqrtIn(n, lo, mid - 1)

\* Math.floor(Matter.Vector.magnitude(v))
FloorMagnitude(v) == FloorSqrtIn(v[1] * v[1] + v[2] * v[2], 0, 2048)

\* ---------------------------------------------------------- Matter.Composite
\* Composite.allBodies(world): a fresh array of the world's bodies
AllBodies(w) == w

\* Composite.remove(world, object, true): takes the object out of the
\* composite's body list when it is a member of it, and does nothing otherwise
CompositeRemove(w, b) == SelectSeq(w, LAMBDA x : x # b)

InWorld(w, b) == \E i \in 1..Len(w) : w[i] = b

\* a part is simulated while the body that owns it is in the world
PartInWorld(w, p) == InWorld(w, parent[p])

\* the parts the engine's detector reports in pairs: a body with a single part,
\* or a sub-part of a compound body (never the compound body itself)
Collidable == {p \in Bodies : Len(parts[parent[p]]) = 1 \/ parent[p] # p}

\* ------------------------------------------------- beforeUpdate (game.js:37-48)
\* lines 41-45, for one part
beforeUpdatePart(st, part) ==
    IF label[part] = "Projectile" /\ isSleeping[part]
    THEN [st EXCEPT !.world = CompositeRemove(st.world, part)]
    ELSE [st EXCEPT !.velocityPrev[part] = OwnVelocity]

\* line 40: for (let part of body.parts), from index i on
RECURSIVE beforeUpdateParts(_, _, _)
beforeUpdateParts(st, ps, i) ==
    IF i > Len(ps) THEN st
    ELSE beforeUpdateParts(beforeUpdatePart(st, ps[i]), ps, i + 1)

\* line 39: for (let body of bodies), from index i on
RECURSIVE beforeUpdateBodies(_, _, _)
beforeUpdateBodies(st, bodies, i) ==
    IF i > Len(bodies) THEN st
    ELSE beforeUpdateBodies(beforeUpdateParts(st, parts[bodies[i]], 1), bodies, i + 1)

beforeUpdate ==
    /\ phase = "beforeUpdate"
    /\ steps < MaxSteps
    /\ LET st == beforeUpdateBodies([world |-> world, velocityPrev |-> velocityPrev],
                                    AllBodies(world), 1)
       IN /\ world' = st.world
          /\ velocityPrev' = st.velocityPrev
    /\ phase' = "update"
    /\ steps' = steps + 1
    /\ uncaught' = FALSE
    /\ UNCHANGED <<label, velocity, shockAbsorbed, angle, isSleeping, pairs>>

\* -------------------------------------------------- afterUpdate (game.js:50-64)
\* variant of syncAngles that treats only bodies of more than two parts as compound
syncAnglesMoreThanTwo(ang, body) ==
    IF Len(parts[body]) > 2
    THEN [p \in Bodies |->
            IF \E i \in 1..Len(parts[body]) : parts[body][i] = p
            THEN ang[body] ELSE ang[p]]
    ELSE ang

\* lines 53-57, for one body
syncAngles(ang, body) ==
    IF Len(parts[body]) > 1
    THEN [p \in Bodies |->
            IF \E i \in 1..Len(parts[body]) : parts[body][i] = p
            THEN ang[body] ELSE ang[p]]
    ELSE ang

\* variant of overLimit with a threshold ten times too high
overLimitTenfold(sa, body) == sa[body] > 10 * ShockLimit

\* variant of overLimit that also fires at the threshold itself
overLimitInclusive(sa, body) == sa[body] >= ShockLimit

\* line 59
overLimit(sa, body) == sa[body] > ShockLimit

\* lines 58-62, for one body
removeBroken(w, sa, body) ==
    IF label[body] = "Block" /\ overLimit(sa, body)
    THEN CompositeRemove(w, body)
    ELSE w

\* variant of afterUpdateBodies that walks the world's own body list, which
\* shrinks under the loop when a body is removed
RECURSIVE afterUpdateBodiesLive(_, _, _)
afterUpdateBodiesLive(st, bodies, i) ==
    IF i > Len(st.world) THEN st
    ELSE afterUpdateBodiesLive(
            [world |-> removeBroken(st.world, shockAbsorbed, st.world[i]),
             angle |-> syncAngles(st.angle, st.world[i])],
            bodies, i + 1)

\* line 52: for (let body of bodies), from index i on
RECURSIVE afterUpdateBodies(_, _, _)
afterUpdateBodies(st, bodies, i) ==
    IF i > Len(bodies) THEN st
    ELSE afterUpdateBodies(
            [world |-> removeBroken(st.world, shockAbsorbed, bodies[i]),
             angle |-> syncAngles(st.angle, bodies[i])],
            bodies, i + 1)

afterUpdate ==
    /\ phase = "afterUpdate"
    /\ steps < MaxSteps
    /\ LET st == afterUpdateBodies([world |-> world, angle |-> angle],
                                   AllBodies(world), 1)
       IN /\ world' = st.world
          /\ angle' = st.angle
    /\ phase' = "beforeUpdate"
    /\ steps' = steps + 1
    /\ pairs' = <<>>
    /\ UNCHANGED <<label, velocity, velocityPrev, shockAbsorbed, isSleeping, uncaught>>

\* ----------------------------------------------- collisionStart (game.js:68-83)
\* x || 0
OrZero(x) == IF x = Undefined THEN 0 ELSE x

\* the vector read through part.velocityPrev: the part's velocity object, with
\* whatever the engine has written into it since the reference was stored
velocityPrevValue(b) == velocity[b]

\* variant of momentum that forgets the isStatic test
momentumIgnoringStatic(b) == VecMult(velocityPrevValue(b), mass[b])

\* lines 70-71: velocityPrev * (isStatic ? 0 : mass)
momentum(b) == VecMult(velocityPrevValue(b), IF isStatic[b] THEN 0 ELSE mass[b])

\* line 72 and the Math.floor of lines 74 and 79
shock(a, b) == FloorMagnitude(VecSub(momentum(a), momentum(b)))

\* variant of absorb that assigns the part's total to the parent instead of
\* adding it
absorbParentAssigned(sa, b, s) ==
    LET sa1 == [sa EXCEPT ![b] = OrZero(sa[b]) + s]
    IN IF parent[b] = b THEN sa1 ELSE [sa1 EXCEPT ![parent[b]] = s]

\* variant of absorb that assigns the shock to the part instead of adding it
absorbOverwrite(sa, b, s) ==
    LET sa1 == [sa EXCEPT ![b] = s]
        sa2 == [sa1 EXCEPT ![parent[b]] = OrZero(sa1[parent[b]])]
    IN [sa2 EXCEPT ![parent[b]] = sa2[parent[b]] + sa2[b]]

\* lines 73-76 (bodyA) and 78-81 (bodyB): the part, then its parent
absorb(sa, b, s) ==
    LET sa1 == [sa EXCEPT ![b] = OrZero(sa[b]) + s]
        sa2 == [sa1 EXCEPT ![parent[b]] = OrZero(sa1[parent[b]])]
    IN [sa2 EXCEPT ![parent[b]] = sa2[parent[b]] + sa2[b]]

\* lines 70-81, for one pair
collidePair(sa, pair) ==
    LET s == shock(pair[1], pair[2])
    IN absorb(absorb(sa, pair[1], s), pair[2], s)

\* Vector.mult reads .x of velocityPrev: a TypeError when it does not exist
throws(pair) ==
    \/ velocityPrev[pair[1]] = NoVector
    \/ velocityPrev[pair[2]] = NoVector

\* line 69: for (let pair of event.pairs), from index i on; the loop ends at
\* the first pair that throws
RECURSIVE collidePairs(_, _, _)
collidePairs(sa, ps, i) ==
    IF i > Len(ps) THEN [shockAbsorbed |-> sa, threw |-> FALSE]
    ELSE IF throws(ps[i]) THEN [shockAbsorbed |-> sa, threw |-> TRUE]
    ELSE collidePairs(collidePair(sa, ps[i]), ps, i + 1)

\* variant of collisionStart that takes broken Blocks out of the world itself
\* instead of leaving them to afterUpdate
collisionStartRemoving ==
    /\ phase = "collisionStart"
    /\ steps < MaxSteps
    /\ LET r == collidePairs(shockAbsorbed, pairs, 1)
       IN /\ shockAbsorbed' = r.shockAbsorbed
          /\ uncaught' = r.threw
          /\ phase' = IF r.threw THEN "beforeUpdate" ELSE "afterUpdate"
          /\ world' = SelectSeq(world,
                LAMBDA b : ~(label[b] = "Block" /\ r.shockAbsorbed[b] > ShockLimit))
    /\ steps' = steps + 1
    /\ pairs' = <<>>
    /\ UNCHANGED <<label, velocity, velocityPrev, angle, isSleeping>>

\* an exception leaves Engine.update: the tick ends without afterUpdate and the
\* runner, which has already requested the next frame, starts the next tick
collisionStart ==
    /\ phase = "collisionStart"
    /\ steps < MaxSteps
    /\ LET r == collidePairs(shockAbsorbed, pairs, 1)
       IN /\ shockAbsorbed' = r.shockAbsorbed
          /\ uncaught' = r.threw
          /\ phase' = IF r.threw THEN "beforeUpdate" ELSE "afterUpdate"
    /\ steps' = steps + 1
    /\ pairs' = <<>>
    /\ UNCHANGED <<world, label, velocity, velocityPrev, angle, isSleeping>>

\* ------------------------------------------------ Engine.update (game.js:91)
\* pairs the detector can report: two collidable parts of different bodies of
\* the world, not both static; the engine makes the part with the lower id
\* bodyA
PossiblePairs(w) ==
    {pr \in Collidable \X Collidable :
        /\ pr[1] < pr[2]
        /\ PartInWorld(w, pr[1]) /\ PartInWorld(w, pr[2])
        /\ parent[pr[1]] # parent[pr[2]]
        /\ ~(isStatic[parent[pr[1]]] /\ isStatic[parent[pr[2]]])}

SamePair(p, q) == {p[1], p[2]} = {q[1], q[2]}

\* event.pairs: at most MaxPairs pairs, each pair of parts at most once
PairLists(w) ==
    {ps \in UNION {[1..n -> PossiblePairs(w)] : n \in 0..MaxPairs} :
        \A i, j \in 1..Len(ps) : i # j => ~SamePair(ps[i], ps[j])}

\* what the engine does to the bodies between the two hooks: it integrates
\* (writes velocity in place, turns the body and its parts) and runs the sleep
\* detector on the bodies of the world; one body record changes in a tick, or
\* the sleep detector finds every body of the world that can move at rest
integrate ==
    \/ \E b \in Bodies, v \in Velocities :
          /\ PartInWorld(world, b)
          /\ velocity' = [velocity EXCEPT ![b] = v]
          /\ UNCHANGED <<angle, isSleeping>>
    \/ \E b \in Bodies, a \in Angles :
          /\ PartInWorld(world, b) /\ ~isStatic[b]
          /\ angle' = [angle EXCEPT ![b] = a]
          /\ UNCHANGED <<velocity, isSleeping>>
    \/ \E b \in Bodies, s \in BOOLEAN :
          /\ InWorld(world, b) /\ ~isStatic[b]
          /\ isSleeping' = [isSleeping EXCEPT ![b] = s]
          /\ UNCHANGED <<velocity, angle>>
    \/ /\ isSleeping' = [b \in Bodies |->
                            IF InWorld(world, b) /\ ~isStatic[b] THEN TRUE
                            ELSE isSleeping[b]]
       /\ UNCHANGED <<velocity, angle>>

\* the engine's part of a tick, between beforeUpdate and the collision report
engineUpdate ==
    /\ phase = "update"
    /\ steps < MaxSteps
    /\ integrate
    /\ \E ps \in PairLists(world) :
          /\ pairs' = ps
          /\ phase' = IF ps = <<>> THEN "afterUpdate" ELSE "collisionStart"
    /\ steps' = steps + 1
    /\ UNCHANGED <<world, label, velocityPrev, shockAbsorbed, uncaught>>

\* ------------------------------------------------------------ specification
\* the state the constructor leaves (game.js:85-91): bodies at rest, no hook
\* has run yet
Init ==
    /\ world = <<1, 2, 3>>
    /\ \E l2 \in Labels, l3 \in Labels :
          label = [b \in Bodies |-> IF b = Ground THEN "Ground"
                                    ELSE IF b = 2 THEN l2 ELSE l3]
    /\ velocity = [b \in Bodies |-> <<0, 0>>]
    /\ velocityPrev = [b \in Bodies |-> NoVector]
    /\ shockAbsorbed = [b \in Bodies |-> Undefined]
    /\ angle = [b \in Bodies |-> 0]
    /\ \E s4 \in BOOLEAN : isSleeping = [b \in Bodies |-> b = 4 /\ s4]
    /\ pairs = <<>>
    /\ phase = "beforeUpdate"
    /\ steps = 0
    /\ uncaught = FALSE

Next == beforeUpdate \/ engineUpdate \/ collisionStart \/ afterUpdate

Spec == Init /\ [][Next]_vars

TypeOK ==
    /\ phase \in {"beforeUpdate", "update", "collisionStart", "afterUpdate"}
    /\ steps \in 0..MaxSteps
    /\ \A b \in Bodies : shockAbsorbed[b] = Undefined \/ shockAbsorbed[b] >= 0

\* ------------------------------------------------------------------ claims
\* A step taken from a state with phase = "collisionStart" is a run of the
\* collisionStart hook, one from "beforeUpdate" a run of the beforeUpdate hook,
\* one from "afterUpdate" a run of the afterUpdate hook, one from "update" the
\* engine's integration and detection.

\* an event of exactly one pair, which the hook processes without throwing
OnePairEvent == phase = "collisionStart" /\ Len(pairs) = 1 /\ ~throws(pairs[1])

\* floor(|velocityPrevA * massA - velocityPrevB * massB|), as the claims state it
DynamicShock(a, b) ==
    FloorMagnitude(VecSub(VecMult(velocityPrevValue(a), mass[a]),
                          VecMult(velocityPrevValue(b), mass[b])))

Fresh(b) == shockAbsorbed[b] = Undefined /\ shockAbsorbed[parent[b]] = Undefined

\* C1: when the hook processes a pair of two dynamic bodies whose shockAbsorbed
\* (and whose parents') is still unset, each colliding part and each part's
\* parent end with shockAbsorbed equal to the pair's shock s, for a part of a
\* compound body and for a body that is its own parent alike.
C1_FirstCollisionAllEqualShock ==
    [][OnePairEvent =>
        LET a == pairs[1][1]
            b == pairs[1][2]
            s == DynamicShock(a, b)
        IN (~isStatic[a] /\ ~isStatic[b] /\ Fresh(a) /\ Fresh(b)) =>
             /\ shockAbsorbed'[a] = s
             /\ shockAbsorbed'[b] = s
             /\ shockAbsorbed'[parent[a]] = s
             /\ shockAbsorbed'[parent[b]] = s]_vars

\* C2: on every pair the hook processes, each colliding part's shockAbsorbed
\* grows by exactly the pair's shock s, and its parent's shockAbsorbed grows by
\* the part's new total (so two hits of 6 give 6, 12 on the part and 6, 18 on
\* the parent).
C2_CompoundingAccumulation ==
    [][OnePairEvent =>
        LET s == shock(pairs[1][1], pairs[1][2])
        IN \A x \in {pairs[1][1], pairs[1][2]} :
             /\ shockAbsorbed'[x] = OrZero(shockAbsorbed[x]) + s
             /\ parent[x] # x =>
                  shockAbsorbed'[parent[x]] =
                      OrZero(shockAbsorbed[parent[x]]) + shockAbsorbed'[x]]_vars

\* C3: for every part in the world that the pre-step pass does not remove,
\* velocityPrev after the pass is the velocity the part had when the pass
\* started, and it still is that value after the engine has integrated the
\* step, when the collisionStart hook reads it.
C3_VelocityPrevLagsOneStep ==
    [][/\ phase = "beforeUpdate" =>
            \A p \in Bodies :
                (PartInWorld(world, p) /\ PartInWorld(world', p)) =>
                    /\ velocityPrev'[p] # NoVector
                    /\ velocityPrevValue(p)' = velocity[p]
       /\ phase = "update" =>
            \A p \in Bodies :
                (PartInWorld(world, p) /\ velocityPrev[p] # NoVector) =>
                    velocityPrevValue(p)' = velocityPrevValue(p)]_vars

\* C4: every part labelled "Projectile" whose sleep flag is set when the
\* pre-step pass runs is absent from the world after the pass, sub-parts of
\* compound bodies included.
C4_SleepingProjectileAbsent ==
    [][phase = "beforeUpdate" =>
        \A p \in Bodies :
            (PartInWorld(world, p) /\ label[p] = "Projectile" /\ isSleeping[p]) =>
                ~PartInWorld(world', p)]_vars

\* C5: every body labelled "Block" that is in the world when a post-step pass
\* runs with shockAbsorbed > 500 is absent, with all its parts, after that
\* pass, however many such bodies there are.
C5_BrokenBlocksRemoved ==
    [][phase = "afterUpdate" =>
        \A b \in Bodies :
            (InWorld(world, b) /\ label[b] = "Block" /\ shockAbsorbed[b] > ShockLimit) =>
                \A i \in 1..Len(parts[b]) : ~PartInWorld(world', parts[b][i])]_vars

\* two Blocks were over the limit in the first post-step pass and both are gone
C5_Witness ==
    /\ phase = "beforeUpdate" /\ steps = 4 /\ ~uncaught
    /\ label[2] = "Block" /\ label[3] = "Block"
    /\ shockAbsorbed[2] > ShockLimit /\ shockAbsorbed[3] > ShockLimit
    /\ ~InWorld(world, 2) /\ ~InWorld(world, 3)

\* C6: after every post-step pass, every part of every body of the world with
\* more than one part has the body's angle, and the pass leaves the angle of a
\* body with exactly one part (and of the compound body itself) untouched.
C6_AnglesSynchronized ==
    [][phase = "afterUpdate" =>
        /\ \A b \in Bodies :
              (InWorld(world', b) /\ Len(parts[b]) > 1) =>
                  \A i \in 1..Len(parts[b]) : angle'[parts[b][i]] = angle'[b]
        /\ \A b \in Bodies : InWorld(world, b) => angle'[b] = angle[b]]_vars

\* the first tick (no collision) turned the compound body only; its sub-part
\* has followed
C6_Witness ==
    /\ phase = "beforeUpdate" /\ steps = 3 /\ ~uncaught
    /\ InWorld(world, 3)
    /\ angle[3] = 1 /\ angle[4] = 1

C8_ShockNeverDecreases ==
    [][\A b \in Bodies :
         shockAbsorbed[b] # Undefined =>
            (shockAbsorbed'[b] # Undefined /\ shockAbsorbed'[b] >= shockAbsorbed[b])]_vars

\* a sub-part hit in two ticks running: its parent holds more than the part
C8_Witness ==
    /\ steps = 7 /\ phase = "afterUpdate"
    /\ shockAbsorbed[4] > 0
    /\ shockAbsorbed[3] > shockAbsorbed[4]

\* C9: a body leaves the world only in a pre-step pass as a sleeping
\* "Projectile" or in a post-step pass as a "Block" with shockAbsorbed > 500,
\* and no step adds a body to the world.
C9_OnlyTwoRemovalRules ==
    [][\A b \in Bodies :
         /\ (InWorld(world, b) /\ ~InWorld(world', b)) =>
               \/ phase = "beforeUpdate" /\ label[b] = "Projectile" /\ isSleeping[b]
               \/ phase = "afterUpdate" /\ label[b] = "Block"
                    /\ shockAbsorbed[b] > ShockLimit
         /\ ~InWorld(world, b) => ~InWorld(world', b)]_vars

\* a sleeping Block at exactly 500 and a waking Projectile with damage have
\* both survived a whole tick
C9_Witness ==
    /\ phase = "beforeUpdate" /\ steps = 7 /\ ~uncaught
    /\ label[3] = "Block" /\ shockAbsorbed[3] = ShockLimit /\ isSleeping[3]
    /\ label[2] = "Projectile" /\ ~isSleeping[2] /\ shockAbsorbed[2] > ShockLimit
    /\ InWorld(world, 1) /\ InWorld(world, 2) /\ InWorld(world, 3)

\* C10: the collisionStart hook never changes the world, and a Block pushed
\* over 500 by a pair of step n is removed by the post-step pass of step n:
\* no Block over the limit is in the world when the next pre-step pass begins.
C10_RemovedBeforeNextPreStep ==
    [][/\ phase = "collisionStart" => world' = world
       /\ phase' = "beforeUpdate" =>
            \A b \in Bodies :
                (InWorld(world', b) /\ label[b] = "Block") =>
                    ~(shockAbsorbed'[b] > ShockLimit)]_vars

\* C11: the pre-step pass touches every part it visits in exactly one way:
\* a sleeping "Projectile" part is removed and its velocityPrev is left as it
\* was; any other part gets its velocityPrev overwritten with its velocity and
\* stays in the world. Never both, never neither.
C11_PreStepExactlyOneWay ==
    [][phase = "beforeUpdate" =>
        \A p \in Bodies :
            PartInWorld(world, p) =>
                IF label[p] = "Projectile" /\ isSleeping[p]
                THEN /\ ~PartInWorld(world', p)
                     /\ velocityPrev'[p] = velocityPrev[p]
                ELSE /\ PartInWorld(world', p)
                     /\ velocityPrev'[p] = OwnVelocity
                     /\ velocityPrevValue(p)' = velocity[p]]_vars

\* C12: shockAbsorbed is written by the collisionStart hook only: the pre-step
\* pass, the engine and the post-step pass leave every shockAbsorbed as it is,
\* and the collisionStart hook leaves velocityPrev, angle and the membership
\* of the world as they are.
C12_ShockWrittenByCollisionOnly ==
    [][/\ phase # "collisionStart" => shockAbsorbed' = shockAbsorbed
       /\ phase = "collisionStart" =>
            /\ velocityPrev' = velocityPrev
            /\ \A b \in Bodies : velocityPrevValue(b)' = velocityPrevValue(b)
            /\ angle' = angle
            /\ world' = world]_vars

\* the damage of a hit in the first tick has come unchanged through two
\* post-step passes and a pre-step pass
C12_Witness ==
    /\ phase = "beforeUpdate" /\ steps = 7 /\ ~uncaught
    /\ InWorld(world, 3)
    /\ shockAbsorbed[4] = 303 /\ shockAbsorbed[3] = 303
    /\ shockAbsorbed[Ground] = 606 /\ shockAbsorbed[2] = Undefined

\* the parts of the bodies of w
PartsOf(w) == {p \in Bodies : PartInWorld(w, p)}

\* C13: a removal during a pass does not disturb the traversal: each pass does
\* to every body that was in the world when it started what it does to that
\* body alone, whether or not bodies before it were removed in the same pass.
\* Pre-step: every sleeping "Projectile" body is removed and every other part
\* is snapshotted. Post-step: every Block over the limit is removed and every
\* compound body has its parts turned to its angle.
C13_TraversalUndisturbed ==
    [][/\ phase = "beforeUpdate" =>
            /\ world' = SelectSeq(world,
                    LAMBDA b : ~(label[b] = "Projectile" /\ isSleeping[b]))
            /\ \A p \in PartsOf(world) :
                    velocityPrev'[p] =
                        IF label[p] = "Projectile" /\ isSleeping[p]
                        THEN velocityPrev[p] ELSE OwnVelocity
       /\ phase = "afterUpdate" =>
            /\ world' = SelectSeq(world,
                    LAMBDA b : ~(label[b] = "Block" /\ shockAbsorbed[b] > ShockLimit))
            /\ \A p \in PartsOf(world) : angle'[p] = angle[parent[p]]
            /\ \A p \in Bodies \ PartsOf(world) : angle'[p] = angle[p]]_vars

\* the Block before the compound Block in the world's list was removed in the
\* second post-step pass; the compound Block, turned in that tick, was still
\* visited: its sub-part has its angle and it was removed as well
C13_Witness ==
    /\ phase = "beforeUpdate" /\ steps = 7 /\ ~uncaught
    /\ world = <<Ground>>
    /\ label[2] = "Block" /\ label[3] = "Block"
    /\ angle[3] = 1 /\ angle[4] = 1

\* two sleeping Projectiles, one after the other in the world's list, were
\* both removed by one pre-step pass
C13_WitnessPreStep ==
    /\ phase = "update" /\ steps = 4
    /\ world = <<Ground>>
    /\ label[2] = "Projectile" /\ label[3] = "Projectile"
    /\ isSleeping[2] /\ isSleeping[3]

\* C14: every body of a pair handed to the collisionStart hook has had its
\* velocityPrev assigned by an earlier pre-step pass, so the hook never reads
\* an unset velocityPrev (and no tick ends with its TypeError).
C14_VelocityPrevDefinedWhenRead ==
    /\ phase = "collisionStart" =>
          \A i \in 1..Len(pairs) :
              velocityPrev[pairs[i][1]] # NoVector /\ velocityPrev[pairs[i][2]] # NoVector
    /\ ~uncaught

\* the pairs of ps in the order f, with bodyA and bodyB exchanged in the
\* pairs whose index is in sw
Rearranged(ps, f, sw) ==
    [i \in 1..Len(ps) |->
        IF i \in sw THEN <<ps[f[i]][2], ps[f[i]][1]>> ELSE ps[f[i]]]

Orders(n) == {f \in [1..n -> 1..n] : \A i, j \in 1..n : i # j => f[i] # f[j]}

\* C15: the shockAbsorbed values a collisionStart event leaves do not depend
\* on the order of its pairs, nor on which body of a pair is bodyA.
C15_PairOrderIndependent ==
    phase = "collisionStart" =>
        \A f \in Orders(Len(pairs)), sw \in SUBSET (1..Len(pairs)) :
            collidePairs(shockAbsorbed, Rearranged(pairs, f, sw), 1).shockAbsorbed
                = collidePairs(shockAbsorbed, pairs, 1).shockAbsorbed

\* C16: every shockAbsorbed that is set is a non-negative integer, and the
\* parent of a part whose shockAbsorbed is set has its own set, to at least
\* the part's value.
C16_ParentDominatesPart ==
    \A p \in Bodies :
        shockAbsorbed[p] # Undefined =>
            /\ shockAbsorbed[p] \in Nat
            /\ shockAbsorbed[parent[p]] # Undefined
            /\ shockAbsorbed[parent[p]] >= shockAbsorbed[p]

\* the sub-part was hit in both pairs of one event (300, then 0): it holds
\* 300, its parent 600
C16_Witness ==
    /\ phase = "afterUpdate" /\ steps = 3
    /\ shockAbsorbed[4] = 300 /\ shockAbsorbed[3] = 600
    /\ shockAbsorbed[2] = 600 /\ shockAbsorbed[Ground] = 0

====
